---- MODULE Spec2Model ----
(* Model of set_custom_properties.py (the batch property applier: main and  *)
(* CustomPropertySetter) and of stunning_memory/core.py (ExampleClass).     *)
(* Python strings are sequences of one-character strings; a dict is a       *)
(* sequence of <<key, value>> pairs in insertion order with unique keys;    *)
(* an Optional[str] is a sequence holding zero or one string.               *)
EXTENDS Integers, Sequences, FiniteSets

VARIABLES
    token,          \* args.token is truthy
    fileState,      \* "absent" (no --properties-file), "unreadable", "ok"
    fileProps,      \* the dict json.load returns when the file is readable
    argProps,       \* args.properties: the --property strings, in order
    dryRun,         \* args.dry_run
    repoFilter,     \* args.filter (Optional[str])
    orgRepos,       \* short names of the organization's repositories
    pc,             \* position of main
    properties,     \* main's properties dict
    propIdx,        \* number of --property strings consumed by the loop
    repos,          \* set_properties_on_all_repos: local repos
    repoIdx,        \* number of repositories the for loop has completed
    propPos,        \* number of properties applied to the current repo
    success,        \* local flag of the current repository
    results,        \* the results dict
    calls,          \* network calls issued so far, in order
    exitCode,       \* process exit code, -1 while running
    value,          \* ExampleClass.value
    initial,        \* the value ExampleClass was constructed with
    amounts,        \* arguments of the increment calls made so far
    lastOp,         \* last ExampleClass method called
    ret             \* what it returned

mainVars == <<token, fileState, fileProps, argProps, dryRun, repoFilter,
              orgRepos, pc, properties, propIdx, repos, repoIdx, propPos,
              success, results, calls, exitCode>>
classVars == <<value, initial, amounts, lastOp, ret>>
vars == <<token, fileState, fileProps, argProps, dryRun, repoFilter,
          orgRepos, pc, properties, propIdx, repos, repoIdx, propPos,
          success, results, calls, exitCode,
          value, initial, amounts, lastOp, ret>>

(* ---------------------------------------------------------------------- *)
(* Bounds                                                                  *)
(* ---------------------------------------------------------------------- *)
MaxRepos == 3
MaxNameLen == 2
MaxListed == 2
MaxFilterLen == 2
MaxPropLen == 3
MaxPropArgs == 1
MaxCalls == 3
MaxAmount == 2

(* ---------------------------------------------------------------------- *)
(* String and dict helpers                                                 *)
(* ---------------------------------------------------------------------- *)
IsSpace(c) == c = " "

RECURSIVE lstrip(_)
lstrip(s) ==
    IF s = <<>> THEN s
    ELSE IF IsSpace(Head(s)) THEN lstrip(Tail(s)) ELSE s

RECURSIVE rstrip(_)
rstrip(s) ==
    IF s = <<>> THEN s
    ELSE IF IsSpace(s[Len(s)]) THEN rstrip(SubSeq(s, 1, Len(s) - 1)) ELSE s

strip(s) == rstrip(lstrip(s))

HasChar(c, s) == \E i \in 1..Len(s) : s[i] = c

find_Last(s, c) == CHOOSE i \in 1..Len(s) : s[i] = c /\ \A j \in (i + 1)..Len(s) : s[j] # c

find(s, c) == CHOOSE i \in 1..Len(s) : s[i] = c /\ \A j \in 1..(i - 1) : s[j] # c

split1(s, c) == <<SubSeq(s, 1, find(s, c) - 1), SubSeq(s, find(s, c) + 1, Len(s))>>

LowerChar(c) == IF c = "A" THEN "a" ELSE IF c = "B" THEN "b" ELSE c

lower(s) == [i \in 1..Len(s) |-> LowerChar(s[i])]

IsSubstring(t, s) ==
    \E k \in 0..(Len(s) - Len(t)) : SubSeq(s, k + 1, k + Len(t)) = t

HasKey(d, k) == \E i \in 1..Len(d) : d[i][1] = k

DictSet(d, k, v) ==
    IF HasKey(d, k)
    THEN [i \in 1..Len(d) |-> IF d[i][1] = k THEN <<k, v>> ELSE d[i]]
    ELSE Append(d, <<k, v>>)

(* ---------------------------------------------------------------------- *)
(* main: argument validation                                               *)
(* ---------------------------------------------------------------------- *)
Exit(code) == pc' = "exit" /\ exitCode' = code

ValidateToken ==
    /\ pc = "validate_token"
    /\ IF ~token
       THEN Exit(1)
       ELSE pc' = "load_file" /\ exitCode' = exitCode
    /\ UNCHANGED <<token, fileState, fileProps, argProps, dryRun, repoFilter,
                   orgRepos, properties, propIdx, repos, repoIdx, propPos,
                   success, results, calls>>
    /\ UNCHANGED classVars

load_properties_from_file ==
    /\ pc = "load_file"
    /\ IF fileState = "unreadable"
       THEN Exit(1) /\ properties' = properties
       ELSE /\ properties' = IF fileState = "ok" THEN fileProps ELSE <<>>
            /\ pc' = "parse"
            /\ exitCode' = exitCode
    /\ UNCHANGED <<token, fileState, fileProps, argProps, dryRun, repoFilter,
                   orgRepos, propIdx, repos, repoIdx, propPos,
                   success, results, calls>>
    /\ UNCHANGED classVars

PropRejected(p) ==
    \/ strip(p) = <<>>
    \/ ~HasChar("=", strip(p))
    \/ strip(split1(strip(p), "=")[1]) = <<>>

PropName(p) == strip(split1(strip(p), "=")[1])

PropValue(p) == strip(split1(strip(p), "=")[2])

ParseProperty ==
    /\ pc = "parse"
    /\ propIdx < Len(argProps)
    /\ propIdx' = propIdx + 1
    /\ IF PropRejected(argProps[propIdx + 1])
       THEN Exit(1) /\ properties' = properties
       ELSE /\ properties' = DictSet(properties,
                                     PropName(argProps[propIdx + 1]),
                                     PropValue(argProps[propIdx + 1]))
            /\ UNCHANGED <<pc, exitCode>>
    /\ UNCHANGED <<token, fileState, fileProps, argProps, dryRun, repoFilter,
                   orgRepos, repos, repoIdx, propPos, success, results, calls>>
    /\ UNCHANGED classVars

CheckProperties_NoEmptyCheck ==
    /\ pc = "parse"
    /\ propIdx = Len(argProps)
    /\ pc' = "connect"
    /\ UNCHANGED <<token, fileState, fileProps, argProps, dryRun, repoFilter,
                   orgRepos, properties, propIdx, repos, repoIdx, propPos,
                   success, results, calls, exitCode>>
    /\ UNCHANGED classVars

CheckProperties ==
    /\ pc = "parse"
    /\ propIdx = Len(argProps)
    /\ IF properties = <<>>
       THEN Exit(1)
       ELSE pc' = "connect" /\ exitCode' = exitCode
    /\ UNCHANGED <<token, fileState, fileProps, argProps, dryRun, repoFilter,
                   orgRepos, properties, propIdx, repos, repoIdx, propPos,
                   success, results, calls>>
    /\ UNCHANGED classVars

(* ---------------------------------------------------------------------- *)
(* CustomPropertySetter                                                    *)
(* ---------------------------------------------------------------------- *)
Call(op, repo, prop, ok) == [op |-> op, repo |-> repo, prop |-> prop, ok |-> ok]

validate_connection ==
    /\ pc = "connect"
    /\ \E ok \in BOOLEAN :
        /\ calls' = Append(calls, Call("get_organization", <<>>, <<>>, ok))
        /\ IF ok
           THEN pc' = "list" /\ exitCode' = exitCode
           ELSE Exit(1)
    /\ UNCHANGED <<token, fileState, fileProps, argProps, dryRun, repoFilter,
                   orgRepos, properties, propIdx, repos, repoIdx, propPos,
                   success, results>>
    /\ UNCHANGED classVars

get_all_repos ==
    /\ pc = "list"
    /\ \E ok \in BOOLEAN :
        /\ calls' = Append(calls, Call("get_repos", <<>>, <<>>, ok))
        /\ repos' = IF ok THEN orgRepos ELSE <<>>
    /\ pc' = "filter"
    /\ UNCHANGED <<token, fileState, fileProps, argProps, dryRun, repoFilter,
                   orgRepos, properties, propIdx, repoIdx, propPos,
                   success, results, exitCode>>
    /\ UNCHANGED classVars

Matches_CaseSensitiveName(f, name) == IsSubstring(lower(f), name)

Matches(f, name) == IsSubstring(lower(f), lower(name))

FilterList(rs, f) == SelectSeq(rs, LAMBDA r : Matches(f, r))

FilterRepos ==
    /\ pc = "filter"
    /\ repos' = IF repoFilter # <<>> /\ repoFilter[1] # <<>>
                THEN FilterList(repos, repoFilter[1])
                ELSE repos
    /\ results' = [success |-> 0, failed |-> 0, skipped |-> 0]
    /\ repoIdx' = 0
    /\ pc' = "repo_loop"
    /\ UNCHANGED <<token, fileState, fileProps, argProps, dryRun, repoFilter,
                   orgRepos, properties, propIdx, propPos, success, calls,
                   exitCode>>
    /\ UNCHANGED classVars

DryRunRepo ==
    /\ pc = "repo_loop"
    /\ repoIdx < Len(repos)
    /\ dryRun
    /\ results' = [results EXCEPT !.skipped = @ + 1]
    /\ repoIdx' = repoIdx + 1
    /\ UNCHANGED <<token, fileState, fileProps, argProps, dryRun, repoFilter,
                   orgRepos, pc, properties, propIdx, repos, propPos, success,
                   calls, exitCode>>
    /\ UNCHANGED classVars

BeginRepo_IgnoreDryRun ==
    /\ pc = "repo_loop"
    /\ repoIdx < Len(repos)
    /\ success' = TRUE
    /\ propPos' = 0
    /\ pc' = "prop_loop"
    /\ UNCHANGED <<token, fileState, fileProps, argProps, dryRun, repoFilter,
                   orgRepos, properties, propIdx, repos, repoIdx, results,
                   calls, exitCode>>
    /\ UNCHANGED classVars

BeginRepo ==
    /\ pc = "repo_loop"
    /\ repoIdx < Len(repos)
    /\ ~dryRun
    /\ success' = TRUE
    /\ propPos' = 0
    /\ pc' = "prop_loop"
    /\ UNCHANGED <<token, fileState, fileProps, argProps, dryRun, repoFilter,
                   orgRepos, properties, propIdx, repos, repoIdx, results,
                   calls, exitCode>>
    /\ UNCHANGED classVars

Outcomes == {"ok", "HTTPError", "ConnectionError", "Timeout"}

set_custom_property_result(outcome) == outcome = "ok"

NextPropPos_BreakOnFailure(pos, ok) == IF ok THEN pos + 1 ELSE Len(properties)

NextPropPos(pos, ok) == pos + 1

NextSuccess_LastWins(succ, ok) == ok

NextSuccess(succ, ok) == IF ~ok THEN FALSE ELSE succ

set_custom_property ==
    /\ pc = "prop_loop"
    /\ propPos < Len(properties)
    /\ \E outcome \in Outcomes :
        LET ok == set_custom_property_result(outcome)
        IN /\ calls' = Append(calls, Call("patch", repos[repoIdx + 1],
                                          properties[propPos + 1][1], ok))
           /\ success' = NextSuccess(success, ok)
           /\ propPos' = NextPropPos(propPos, ok)
    /\ UNCHANGED <<token, fileState, fileProps, argProps, dryRun, repoFilter,
                   orgRepos, pc, properties, propIdx, repos, repoIdx, results,
                   exitCode>>
    /\ UNCHANGED classVars

Classify_DropFailed(res, succ) ==
    IF succ THEN [res EXCEPT !.success = @ + 1] ELSE res

Classify(res, succ) ==
    IF succ THEN [res EXCEPT !.success = @ + 1]
    ELSE [res EXCEPT !.failed = @ + 1]

ClassifyRepo ==
    /\ pc = "prop_loop"
    /\ propPos = Len(properties)
    /\ results' = Classify(results, success)
    /\ repoIdx' = repoIdx + 1
    /\ pc' = "repo_loop"
    /\ UNCHANGED <<token, fileState, fileProps, argProps, dryRun, repoFilter,
                   orgRepos, properties, propIdx, repos, propPos, success,
                   calls, exitCode>>
    /\ UNCHANGED classVars

ReturnResults ==
    /\ pc = "repo_loop"
    /\ repoIdx = Len(repos)
    /\ pc' = "summary"
    /\ UNCHANGED <<token, fileState, fileProps, argProps, dryRun, repoFilter,
                   orgRepos, properties, propIdx, repos, repoIdx, propPos,
                   success, results, calls, exitCode>>
    /\ UNCHANGED classVars

SummaryExitCode_AlwaysZero(res) == 0

SummaryExitCode(res) == IF res.failed > 0 THEN 1 ELSE 0

Summarize ==
    /\ pc = "summary"
    /\ Exit(SummaryExitCode(results))
    /\ UNCHANGED <<token, fileState, fileProps, argProps, dryRun, repoFilter,
                   orgRepos, properties, propIdx, repos, repoIdx, propPos,
                   success, results, calls>>
    /\ UNCHANGED classVars

(* ---------------------------------------------------------------------- *)
(* ExampleClass                                                            *)
(* ---------------------------------------------------------------------- *)
increment_ReturnsOld ==
    /\ Len(amounts) < MaxCalls
    /\ \E amount \in (-1)..MaxAmount :
        /\ value' = value + amount
        /\ ret' = value
        /\ amounts' = Append(amounts, amount)
    /\ lastOp' = "increment"
    /\ UNCHANGED initial
    /\ UNCHANGED mainVars

increment ==
    /\ Len(amounts) < MaxCalls
    /\ \E amount \in (-1)..MaxAmount :
        /\ value' = value + amount
        /\ ret' = value + amount
        /\ amounts' = Append(amounts, amount)
    /\ lastOp' = "increment"
    /\ UNCHANGED initial
    /\ UNCHANGED mainVars

get_value ==
    /\ ret' = value
    /\ lastOp' = "get_value"
    /\ UNCHANGED <<value, initial, amounts>>
    /\ UNCHANGED mainVars

(* ---------------------------------------------------------------------- *)
(* Inputs and specifications                                               *)
(* ---------------------------------------------------------------------- *)
RECURSIVE Strings(_, _)
Strings(alphabet, n) ==
    IF n = 0 THEN {<<>>}
    ELSE LET shorter == Strings(alphabet, n - 1)
         IN shorter \cup {Append(s, c) : s \in shorter, c \in alphabet}

RECURSIVE Lists(_, _)
Lists(S, n) ==
    IF n = 0 THEN {<<>>}
    ELSE LET shorter == Lists(S, n - 1)
         IN shorter \cup {Append(l, x) : l \in shorter, x \in S}

Distinct(l) == \A i, j \in 1..Len(l) : i # j => l[i] # l[j]

RepoName(i) == [j \in 1..i |-> IF j % 2 = 1 THEN "a" ELSE "B"]

TeamX == <<"t", "=", "x">>
EnvY == <<"e", "=", "y">>
TeamZ == <<"t", " ", "=", "z">>
NoEq == <<"t">>

InitIdle ==
    /\ pc = "validate_token"
    /\ properties = <<>>
    /\ propIdx = 0
    /\ repos = <<>>
    /\ repoIdx = 0
    /\ propPos = 0
    /\ success = TRUE
    /\ results = [success |-> 0, failed |-> 0, skipped |-> 0]
    /\ calls = <<>>
    /\ exitCode = -1

InitClass ==
    /\ initial = 0
    /\ value = 0
    /\ amounts = <<>>
    /\ lastOp = "init"
    /\ ret = 0

Init ==
    /\ token \in BOOLEAN
    /\ fileState \in {"absent", "unreadable", "ok"}
    /\ fileProps \in IF fileState = "ok"
                     THEN {<<>>, << <<<<"e">>, <<"f">> >> >>}
                     ELSE {<<>>}
    /\ argProps \in {<<>>, <<TeamX>>, <<TeamX, EnvY>>, <<TeamX, TeamZ>>,
                     <<TeamX, NoEq>>}
    /\ dryRun \in BOOLEAN
    /\ repoFilter \in {<<>>, << <<>> >>, << <<"A", "b">> >>, << <<"x">> >>}
    /\ orgRepos \in {[i \in 1..n |-> RepoName(i)] : n \in 0..MaxRepos}
    /\ InitIdle
    /\ InitClass

Next ==
    \/ ValidateToken
    \/ load_properties_from_file
    \/ ParseProperty
    \/ CheckProperties
    \/ validate_connection
    \/ get_all_repos
    \/ FilterRepos
    \/ DryRunRepo
    \/ BeginRepo
    \/ set_custom_property
    \/ ClassifyRepo
    \/ ReturnResults
    \/ Summarize

Spec == Init /\ [][Next]_vars

\* main is one sequential thread: a step that is enabled is eventually taken.
FairSpec == Spec /\ WF_vars(Next)

\* Exhaustive repository names and filters over small alphabets; names and
\* filters differ in case.  Filtering happens before dry_run is read, so real
\* runs are only started without a filter.
Letters == {"a", "A", "b"}

NameLetters == {"A", "b"}

InitFilter ==
    /\ token = TRUE
    /\ fileState = "absent"
    /\ fileProps = <<>>
    /\ argProps = <<TeamX>>
    /\ repoFilter \in {<<>>} \cup {<<f>> : f \in Strings(Letters, MaxFilterLen)}
    /\ dryRun \in IF repoFilter = <<>> THEN BOOLEAN ELSE {TRUE}
    /\ orgRepos \in {l \in Lists(Strings(NameLetters, MaxNameLen) \ {<<>>},
                                 MaxListed) : Distinct(l)}
    /\ InitIdle
    /\ InitClass

SpecFilter == InitFilter /\ [][Next]_vars

\* Exhaustive --property strings over a small alphabet, alone or after a
\* first pair that sets the name a.
PropChars == {"a", "=", " "}

AEqA == <<"a", "=", "a">>

InitParse ==
    /\ token = TRUE
    /\ fileState = "absent"
    /\ fileProps = <<>>
    /\ argProps \in (Lists(Strings(PropChars, MaxPropLen), MaxPropArgs) \ {<<>>})
                    \cup {<<AEqA, p>> : p \in Strings(PropChars, MaxPropLen)}
    /\ dryRun \in BOOLEAN
    /\ repoFilter = <<>>
    /\ orgRepos = <<RepoName(1)>>
    /\ InitIdle
    /\ InitClass

SpecParse == InitParse /\ [][Next]_vars

\* ExampleClass on its own; main has not started.
InitCounter ==
    /\ initial \in {0, 10, 42}
    /\ value = initial
    /\ amounts = <<>>
    /\ lastOp = "init"
    /\ ret = initial
    /\ token = FALSE
    /\ fileState = "absent"
    /\ fileProps = <<>>
    /\ argProps = <<>>
    /\ dryRun = FALSE
    /\ repoFilter = <<>>
    /\ orgRepos = <<>>
    /\ InitIdle

NextCounter ==
    \/ increment
    \/ get_value

SpecCounter == InitCounter /\ [][NextCounter]_vars

(* ---------------------------------------------------------------------- *)
(* Vocabulary of the properties                                            *)
(* ---------------------------------------------------------------------- *)
CallIdx(op) == {i \in 1..Len(calls) : calls[i].op = op}

PatchIdx(r, p) ==
    {i \in CallIdx("patch") : calls[i].repo = r /\ calls[i].prop = p}

Entered == CallIdx("get_repos") # {}

Returned == Entered /\ pc \in {"summary", "exit"}

Counted == results.success + results.failed + results.skipped

ConnectFailed == \E i \in CallIdx("get_organization") : ~calls[i].ok

ListingFailed == \E i \in CallIdx("get_repos") : ~calls[i].ok

MalformedPair == \E i \in 1..Len(argProps) : PropRejected(argProps[i])

EmptyMapping ==
    /\ argProps = <<>>
    /\ fileState = "absent" \/ (fileState = "ok" /\ fileProps = <<>>)

ConfigurationError == ~token \/ MalformedPair \/ EmptyMapping

RepoAllOk(r) == \A i \in CallIdx("patch") : calls[i].repo = r => calls[i].ok

OkRepos == {i \in 1..Len(repos) : RepoAllOk(repos[i])}

FailedRepos == {i \in 1..Len(repos) : ~RepoAllOk(repos[i])}

(* ---------------------------------------------------------------------- *)
(* C1: the three counters of the result of set_properties_on_all_repos     *)
(* sum to the length of the filtered list; each loop iteration counts its  *)
(* repository in exactly one counter, so while the loop runs the sum is    *)
(* the number of repositories completed.                                   *)
(* ---------------------------------------------------------------------- *)
C1_CountersSumToFiltered ==
    /\ pc \in {"repo_loop", "prop_loop"} => Counted = repoIdx
    /\ Returned => Counted = Len(repos)

C1_Witness ==
    /\ Returned
    /\ results.success > 0
    /\ results.failed > 0
    /\ Len(repos) = 3

(* ---------------------------------------------------------------------- *)
(* C2: in dry-run mode no update request is ever issued, and the returned  *)
(* result has skipped = length of the filtered list, success = failed = 0. *)
(* ---------------------------------------------------------------------- *)
C2_DryRunIssuesNoUpdate ==
    dryRun =>
        /\ CallIdx("patch") = {}
        /\ Returned => /\ results.skipped = Len(repos)
                       /\ results.success = 0
                       /\ results.failed = 0

C2_Witness == dryRun /\ Returned /\ Len(repos) >= 2 /\ results.skipped >= 2

(* ---------------------------------------------------------------------- *)
(* C3: main exits with 1 exactly when the token is missing, the property   *)
(* input is missing or malformed, connecting to the organization failed or *)
(* some repository was classified failed; otherwise it exits with 0.       *)
(* ---------------------------------------------------------------------- *)
C3_ExitCode ==
    pc = "exit" =>
        /\ exitCode \in {0, 1}
        /\ exitCode = 1 <=>
               \/ ~token
               \/ fileState = "unreadable"
               \/ MalformedPair
               \/ EmptyMapping
               \/ ConnectFailed
               \/ results.failed > 0

C3_Witness ==
    /\ pc = "exit"
    /\ exitCode = 1
    /\ results.failed = 1
    /\ results.success = 1

(* ---------------------------------------------------------------------- *)
(* C4: on a configuration error (missing token, malformed pair, empty      *)
(* mapping) no network call is ever issued and main exits non-zero.        *)
(* ---------------------------------------------------------------------- *)
C4_ConfigErrorBeforeNetwork ==
    ConfigurationError =>
        /\ calls = <<>>
        /\ pc \in {"validate_token", "load_file", "parse", "exit"}
        /\ pc = "exit" => exitCode = 1

C4_Witness ==
    /\ pc = "exit"
    /\ token
    /\ EmptyMapping
    /\ fileState = "ok"

(* ---------------------------------------------------------------------- *)
(* C5: in a non-dry-run the returned success counter is the number of      *)
(* filtered repositories all of whose updates succeeded, failed counts the *)
(* others, skipped is 0; with three repositories and one failing update on *)
(* the second only, the result is success=2, failed=1, skipped=0.          *)
(* ---------------------------------------------------------------------- *)
C5_Classification ==
    (Returned /\ ~dryRun) =>
        /\ results.success = Cardinality(OkRepos)
        /\ results.failed = Cardinality(FailedRepos)
        /\ results.skipped = 0
        /\ (Len(repos) = 3 /\ FailedRepos = {2}) =>
               results = [success |-> 2, failed |-> 1, skipped |-> 0]

C5_Witness ==
    /\ Returned
    /\ ~dryRun
    /\ Len(repos) = 3
    /\ Len(properties) = 2
    /\ FailedRepos = {2}
    /\ \E i, j \in CallIdx("patch") :
           /\ i < j
           /\ calls[i].repo = repos[2] /\ ~calls[i].ok
           /\ calls[j].repo = repos[2] /\ calls[j].ok

(* ---------------------------------------------------------------------- *)
(* C7: a failed update never aborts the batch.  In a non-dry-run the       *)
(* update requests issued are exactly one per (repository, property) pair, *)
(* repository by repository in property order, whatever failed before, and *)
(* every repository with a failed update is counted failed.                *)
(* ---------------------------------------------------------------------- *)
PatchCalls == SelectSeq(calls, LAMBDA c : c.op = "patch")

C7_FailureNeverAborts ==
    (Returned /\ ~dryRun) =>
        /\ Len(PatchCalls) = Len(repos) * Len(properties)
        /\ \A i \in 1..Len(repos) : \A j \in 1..Len(properties) :
               /\ Cardinality(PatchIdx(repos[i], properties[j][1])) = 1
               /\ PatchCalls[(i - 1) * Len(properties) + j].repo = repos[i]
               /\ PatchCalls[(i - 1) * Len(properties) + j].prop
                      = properties[j][1]
        /\ results.failed = Cardinality(FailedRepos)

C7_Witness ==
    /\ Returned
    /\ ~dryRun
    /\ Len(repos) >= 2
    /\ Len(properties) = 2
    /\ ~PatchCalls[1].ok
    /\ PatchCalls[Len(PatchCalls)].ok

(* ---------------------------------------------------------------------- *)
(* C8: the driver moves forward only through Init, Connected, Listing,     *)
(* Filtering, Applying, Summarized; every run terminates; an error in      *)
(* connecting or in listing repositories leads at once to a failure exit.  *)
(* ---------------------------------------------------------------------- *)
Rank(p) ==
    CASE p \in {"validate_token", "load_file", "parse", "connect"} -> 0
      [] p = "list" -> 1
      [] p = "filter" -> 2
      [] p \in {"repo_loop", "prop_loop"} -> 3
      [] p = "summary" -> 4
      [] p = "exit" -> 5

C8_StateMachine ==
    /\ [][Rank(pc') >= Rank(pc)]_vars
    /\ <>(pc = "exit")
    /\ []((ConnectFailed \/ ListingFailed) => (pc = "exit" /\ exitCode = 1))

(* ---------------------------------------------------------------------- *)
(* C6: the list set_properties_on_all_repos processes is the listing       *)
(* restricted, in its original order, to the repositories whose short name *)
(* contains the filter as a case-insensitive substring; without a filter   *)
(* it is the listing unchanged.                                            *)
(* ---------------------------------------------------------------------- *)
SameLetter(c, d) ==
    \/ c = d
    \/ {c, d} = {"a", "A"}
    \/ {c, d} = {"b", "B"}

ContainsIgnoringCase(f, name) ==
    \E k \in 0..(Len(name) - Len(f)) :
        \A j \in 1..Len(f) : SameLetter(f[j], name[k + j])

RECURSIVE Retained(_, _)
Retained(l, f) ==
    IF l = <<>> THEN <<>>
    ELSE IF ContainsIgnoringCase(f, Head(l))
         THEN <<Head(l)>> \o Retained(Tail(l), f)
         ELSE Retained(Tail(l), f)

Listing == IF ListingFailed THEN <<>> ELSE orgRepos

C6_FilteredList ==
    (Entered /\ pc # "filter") =>
        repos = IF repoFilter = <<>> THEN Listing
                ELSE Retained(Listing, repoFilter[1])

C6_Witness ==
    /\ pc = "summary"
    /\ repoFilter # <<>>
    /\ repoFilter[1] # <<>>
    /\ lower(repoFilter[1]) # repoFilter[1]
    /\ Len(orgRepos) = 2
    /\ repos = <<orgRepos[2]>>
    /\ lower(repos[1]) # repos[1]
    /\ ~IsSubstring(repoFilter[1], repos[1])

(* ---------------------------------------------------------------------- *)
(* C9 as stated: a --property string with an '=' and a non-empty text      *)
(* before the first '=' yields the entry (text before) -> (text after);    *)
(* any other string makes main exit with 1.                                *)
(* ---------------------------------------------------------------------- *)
FirstEq(s) == CHOOSE i \in 1..Len(s) : s[i] = "=" /\ \A j \in 1..(i - 1) : s[j] # "="

RawName(s) == SubSeq(s, 1, FirstEq(s) - 1)

RawValue(s) == SubSeq(s, FirstEq(s) + 1, Len(s))

Maps(d, k, v) == \E i \in 1..Len(d) : d[i] = <<k, v>>

C9_SplitAtFirstEq ==
    propIdx > 0 =>
        LET s == argProps[propIdx]
        IN IF HasChar("=", s) /\ RawName(s) # <<>>
           THEN Maps(properties, RawName(s), RawValue(s))
           ELSE pc = "exit" /\ exitCode = 1

(* ---------------------------------------------------------------------- *)
(* C9 amended: surrounding whitespace is removed from the name and from    *)
(* the value; a string with an '=' whose name is non-empty after that      *)
(* yields the entry name -> value, split at the first '='; any other       *)
(* string makes main exit with 1.                                          *)
(* ---------------------------------------------------------------------- *)
Inked(s) == {i \in 1..Len(s) : s[i] # " "}

Trimmed(s) ==
    IF Inked(s) = {} THEN <<>>
    ELSE SubSeq(s, CHOOSE i \in Inked(s) : \A j \in Inked(s) : i <= j,
                   CHOOSE i \in Inked(s) : \A j \in Inked(s) : i >= j)

C9_SplitAndStrip ==
    propIdx > 0 =>
        LET s == argProps[propIdx]
        IN IF HasChar("=", s) /\ Trimmed(RawName(s)) # <<>>
           THEN Maps(properties, Trimmed(RawName(s)), Trimmed(RawValue(s)))
           ELSE pc = "exit" /\ exitCode = 1

C9_Witness ==
    /\ pc = "summary"
    /\ propIdx > 0
    /\ HasChar("=", argProps[propIdx])
    /\ HasChar(" ", RawName(argProps[propIdx]))
    /\ properties = << <<Trimmed(RawName(argProps[propIdx])), <<>> >> >>

(* ---------------------------------------------------------------------- *)
(* C10: the value of an ExampleClass is its initial value plus the sum of  *)
(* the increments made so far, increment and get_value both return the     *)
(* current value, and get_value leaves the value alone.                    *)
(* ---------------------------------------------------------------------- *)
RECURSIVE Sum(_)
Sum(l) == IF l = <<>> THEN 0 ELSE Head(l) + Sum(Tail(l))

C10_ValueIsSum ==
    /\ value = initial + Sum(amounts)
    /\ lastOp \in {"increment", "get_value"} => ret = value

C10_Witness ==
    /\ lastOp = "get_value"
    /\ Len(amounts) = 3
    /\ ret # initial
    /\ initial = 10

====
